---- MODULE Spec2Model ----
(***************************************************************************)
(* Py-Sitemap: the two crawl drivers, crawl (crawler.py) and               *)
(* generate_sitemap_with_depth (website_crawler.py), as state machines.    *)
(*                                                                         *)
(* A URL is a sequence of tokens: "/" ":" "#" are tokens of their own and  *)
(* every other token (scheme, host, path segment, extension) contains none *)
(* of them, so the string operations of the source (rstrip("/"),           *)
(* split("#"), substring and suffix tests, urlparse, urljoin) are computed *)
(* on the tokens as the source computes them on the characters.            *)
(***************************************************************************)
EXTENDS Integers, Sequences, FiniteSets, TLC

VARIABLES
    site,        \* the web: fetched URL -> the <a href> tags of its page
    start_url,   \* the argument of crawl / generate_sitemap_with_depth
    graph,       \* nx.DiGraph: nodes, edges, the nodes' depth attribute
    visited,     \* set of URLs
    queue,       \* crawler.py: deque of <<url, path>>
    error_404s,  \* crawler.py: list of <<url, path>>
    result,      \* what the driver returned to main (<<>> is None)
    exported,    \* crawler.py: the graphs main handed to the exporters
    base_url,    \* website_crawler.py: start_url.rstrip('/')
    max_depth,   \* website_crawler.py: --max_depth
    to_visit,    \* website_crawler.py: list of <<url, depth>>
    outcome,     \* history: the outcome of every fetch, in order, <<url, outcome>>
    visitLog,    \* history: every visited.add(url), in order
    calls,       \* the URL functions called on their own: [fn, arg, base, ret]
    pc           \* position of the program

vars == <<site, start_url, graph, visited, queue, error_404s, result, exported,
          base_url, max_depth, to_visit, outcome, visitLog, calls, pc>>

(***************************************************************************)
(* Bounds of the model.                                                    *)
(***************************************************************************)
\* most <a href> tags on one page of the generated sites
MaxLinks == 2
\* largest --max_depth tried
MaxDepthArg == 2
\* most tokens of a path the URL functions are called on
MaxUrlLen == 3

(***************************************************************************)
(* Strings.                                                                *)
(***************************************************************************)
Last(s) == s[Len(s)]

Front(s) == SubSeq(s, 1, Len(s) - 1)

\* str.rstrip("/"): every trailing "/" goes
RECURSIVE rstrip(_)
rstrip(s) == IF Len(s) > 0 /\ Last(s) = "/" THEN rstrip(Front(s)) ELSE s

\* str.split("#")[0]: what precedes the first "#"
RECURSIVE split_hash(_)
split_hash(s) ==
    IF s = <<>> \/ Head(s) = "#" THEN <<>> ELSE <<Head(s)>> \o split_hash(Tail(s))

\* sub in s
Contains(s, sub) ==
    \E i \in 1..(Len(s) - Len(sub) + 1) : SubSeq(s, i, i + Len(sub) - 1) = sub

\* s.endswith(suf)
EndsWith(s, suf) ==
    Len(s) >= Len(suf) /\ SubSeq(s, Len(s) - Len(suf) + 1, Len(s)) = suf

\* s.startswith(pre)
StartsWith(s, pre) == Len(s) >= Len(pre) /\ SubSeq(s, 1, Len(pre)) = pre

\* str.lower(), on the tokens the model uses
LowerToken(t) == IF t = ".PNG" THEN ".png" ELSE t

lower(s) == [i \in 1..Len(s) |-> LowerToken(s[i])]

(***************************************************************************)
(* urllib.parse                                                            *)
(***************************************************************************)
SchemeTokens == {"http", "https", "mailto"}

HasScheme(u) == Len(u) >= 2 /\ u[1] \in SchemeTokens /\ u[2] = ":"

Scheme(u) == IF HasScheme(u) THEN u[1] ELSE ""

AfterScheme(u) == IF HasScheme(u) THEN SubSeq(u, 3, Len(u)) ELSE u

\* the tokens of s before the first "/" or "#"
RECURSIVE UpToDelim(_)
UpToDelim(s) ==
    IF s = <<>> \/ Head(s) \in {"/", "#"} THEN <<>> ELSE <<Head(s)>> \o UpToDelim(Tail(s))

\* urlparse(u).netloc: what follows "//", up to the next "/" or "#"
netloc(u) ==
    LET r == AfterScheme(u)
    IN  IF StartsWith(r, <<"/", "/">>) THEN UpToDelim(SubSeq(r, 3, Len(r))) ELSE <<>>

\* urlparse(u).path and what follows it
PathOn(u) ==
    LET r == AfterScheme(u)
    IN  IF StartsWith(r, <<"/", "/">>)
        THEN SubSeq(r, 3 + Len(netloc(u)), Len(r))
        ELSE r

Origin(u) == <<Scheme(u), ":", "/", "/">> \o netloc(u)

\* the directory of a path: up to and with its last "/"
RECURSIVE DirOf(_)
DirOf(p) == IF p = <<>> THEN <<"/">> ELSE IF Last(p) = "/" THEN p ELSE DirOf(Front(p))

\* urljoin(base, href)
urljoin(base, href) ==
    IF href = <<>> THEN base
    ELSE IF HasScheme(href) THEN href
    ELSE IF StartsWith(href, <<"/", "/">>) THEN <<Scheme(base), ":">> \o href
    ELSE IF Head(href) = "/" THEN Origin(base) \o href
    ELSE IF Head(href) = "#" THEN split_hash(base) \o href
    ELSE Origin(base) \o DirOf(split_hash(PathOn(base))) \o href

(***************************************************************************)
(* networkx.DiGraph                                                        *)
(***************************************************************************)
DiGraph == [nodes |-> {}, edges |-> {}, depth |-> <<>>]

\* graph.add_edge(u, v): the two nodes are created when missing
add_edge(g, u, v) ==
    [g EXCEPT !.nodes = @ \cup {u, v}, !.edges = @ \cup {<<u, v>>}]

\* graph.add_node(n, depth=d): an existing node's attribute is overwritten
add_node(g, n, d) ==
    [g EXCEPT !.nodes = @ \cup {n},
              !.depth = [m \in (DOMAIN @) \cup {n} |-> IF m = n THEN d ELSE @[m]]]

(***************************************************************************)
(* crawler.py                                                              *)
(***************************************************************************)
IGNORED_EXTENSIONS == {<<".png">>, <<".jpg">>, <<".jpeg">>, <<".gif">>, <<".svg">>, <<".webp">>}

\* is_internal_link that takes every link for internal
is_internal_link_any(link, base) == TRUE

\* is_internal_link without the empty netloc
is_internal_link_host_only(link, base) == netloc(link) = netloc(base)

is_internal_link(link, base) == netloc(link) \in {<<>>, netloc(base)}

\* normalize_url that strips one trailing "/" only
normalize_url_once(url) == IF Len(url) > 0 /\ Last(url) = "/" THEN Front(url) ELSE url

normalize_url(url) == rstrip(url)

\* the full_url of one tag
FullUrl(tag, base) == rstrip(split_hash(urljoin(base, tag.href)))

\* full_url.lower().endswith(IGNORED_EXTENSIONS)
IsIgnored(full_url) == \E e \in IGNORED_EXTENSIONS : EndsWith(lower(full_url), e)

\* extract_links(html_content, base_url): tags are the <a href> tags of the page;
\* a tag whose text holds "Older posts" is added before the extension test
extract_links(tags, base) ==
    {l.full_url :
        l \in {l \in {[full_url |-> FullUrl(t, base), text |-> t.text] : t \in tags} :
                 l.text = "Older posts" \/ ~IsIgnored(l.full_url)}}

\* requests sends a URL without its fragment
PageOf(url) == split_hash(url)

\* the <a href> tags of the page a URL serves
TagsOf(url) == IF PageOf(url) \in DOMAIN site THEN site[PageOf(url)] ELSE {}

\* what requests.get(url) followed by raise_for_status() can end in:
\*   "ok" a 2xx response, "404", "http_error" another HTTP error status
\*   (HTTPError), "transport" no response at all (RequestException); a URL
\*   whose scheme requests has no adapter for (mailto:) raises InvalidSchema
FetchOutcomes(url) ==
    IF Scheme(url) \in {"http", "https"}
    THEN {"ok", "404", "http_error", "transport"}
    ELSE {"transport"}

\* every order in which a for loop can iterate over a set
Orders(S) ==
    {o \in [1..Cardinality(S) -> S] : \A i, j \in 1..Cardinality(S) : o[i] = o[j] => i = j}

is_on_blog_post(current_url) ==
    /\ Contains(current_url, <<"/", "blog", "/">>)
    /\ ~Contains(current_url, <<"/", "blog", "/", "page", "/">>)
    /\ ~EndsWith(current_url, <<"/", "blog">>)

\* SkipBlogLink that skips nothing
SkipBlogLinkNever(on_blog, normalized_link) == FALSE

\* SkipBlogLink with the pagination test inverted
SkipBlogLinkInverted(on_blog, normalized_link) ==
    /\ on_blog
    /\ Contains(normalized_link, <<"/", "blog", "/">>)
    /\ Contains(normalized_link, <<"/", "blog", "/", "page", "/">>)

\* line 111: the blog-to-blog link of a blog post is skipped
SkipBlogLink(on_blog, normalized_link) ==
    /\ on_blog
    /\ Contains(normalized_link, <<"/", "blog", "/">>)
    /\ ~Contains(normalized_link, <<"/", "blog", "/", "page", "/">>)

\* FollowLink without the test of visited
FollowLinkRevisit(normalized_link, start, vis) == is_internal_link(normalized_link, start)

\* line 114: the link is followed
FollowLink(normalized_link, start, vis) ==
    is_internal_link(normalized_link, start) /\ normalized_link \notin vis

\* FollowStep with the edge's ends exchanged
FollowStepSwapped(st, current_url, path, normalized_link) ==
    [graph |-> add_edge(st.graph, normalized_link, current_url),
     queue |-> Append(st.queue, <<normalized_link, Append(path, normalized_link)>>)]

\* FollowStep with the path of the new entry started afresh
FollowStepFreshPath(st, current_url, path, normalized_link) ==
    [graph |-> add_edge(st.graph, current_url, normalized_link),
     queue |-> Append(st.queue, <<normalized_link, <<current_url, normalized_link>>>>)]

\* FollowStep with the new entry put at the front of the queue
FollowStepFront(st, current_url, path, normalized_link) ==
    [graph |-> add_edge(st.graph, current_url, normalized_link),
     queue |-> <<<<normalized_link, Append(path, normalized_link)>>>> \o st.queue]

\* FollowStep without the append of line 116
FollowStepNoEnqueue(st, current_url, path, normalized_link) ==
    [graph |-> add_edge(st.graph, current_url, normalized_link),
     queue |-> st.queue]

\* lines 115-116 for one link: st is [graph, queue]
FollowStep(st, current_url, path, normalized_link) ==
    [graph |-> add_edge(st.graph, current_url, normalized_link),
     queue |-> Append(st.queue, <<normalized_link, Append(path, normalized_link)>>)]

\* the for loop of lines 107-116 over the links in the order given, from link i on
RECURSIVE ForLinks(_, _, _, _, _, _, _)
ForLinks(order, i, st, current_url, path, start, vis) ==
    IF i > Len(order) THEN st
    ELSE LET normalized_link == normalize_url(order[i])
             next == IF SkipBlogLink(is_on_blog_post(current_url), normalized_link)
                        THEN st
                     ELSE IF FollowLink(normalized_link, start, vis)
                        THEN FollowStep(st, current_url, path, normalized_link)
                     ELSE st
         IN  ForLinks(order, i + 1, next, current_url, path, start, vis)

CrawlFrame == UNCHANGED <<site, start_url, base_url, max_depth, to_visit, calls>>

\* CrawlSkip that puts the visited URL back at the end of the queue
CrawlSkipRequeue ==
    /\ pc = "crawl"
    /\ queue # <<>>
    /\ Head(queue)[1] \in visited
    /\ queue' = Append(Tail(queue), Head(queue))
    /\ UNCHANGED <<graph, visited, error_404s, result, exported, outcome, visitLog, pc>>
    /\ UNCHANGED <<site, start_url, base_url, max_depth, to_visit, calls>>

\* lines 82-85: the dequeued URL is already visited
CrawlSkip ==
    /\ pc = "crawl"
    /\ queue # <<>>
    /\ Head(queue)[1] \in visited
    /\ queue' = Tail(queue)
    /\ UNCHANGED <<graph, visited, error_404s, result, exported, outcome, visitLog, pc>>
    /\ CrawlFrame

\* CrawlVisit without the test of line 84
CrawlVisitUnchecked(oc) ==
    /\ pc = "crawl"
    /\ queue # <<>>
    /\ oc \in FetchOutcomes(Head(queue)[1])
    /\ visited' = visited \cup {Head(queue)[1]}
    /\ visitLog' = Append(visitLog, Head(queue)[1])
    /\ outcome' = Append(outcome, <<Head(queue)[1], oc>>)

\* lines 82-89: dequeue, mark visited, fetch with outcome oc
CrawlVisit(oc) ==
    /\ pc = "crawl"
    /\ queue # <<>>
    /\ Head(queue)[1] \notin visited
    /\ oc \in FetchOutcomes(Head(queue)[1])
    /\ visited' = visited \cup {Head(queue)[1]}
    /\ visitLog' = Append(visitLog, Head(queue)[1])
    /\ outcome' = Append(outcome, <<Head(queue)[1], oc>>)

\* lines 98-116: the page was fetched; its links are followed
CrawlExpand ==
    /\ CrawlVisit("ok")
    /\ \E links \in {extract_links(TagsOf(Head(queue)[1]), start_url)} :
         \E order \in Orders(links) :
           \E st \in {ForLinks(order, 1, [graph |-> graph, queue |-> Tail(queue)],
                               Head(queue)[1], Head(queue)[2], start_url,
                               visited \cup {Head(queue)[1]})} :
             graph' = st.graph /\ queue' = st.queue
    /\ UNCHANGED <<error_404s, result, exported, pc>>
    /\ CrawlFrame

\* lines 91-94 with status 404
CrawlNotFound ==
    /\ CrawlVisit("404")
    /\ error_404s' = Append(error_404s, Head(queue))
    /\ queue' = Tail(queue)
    /\ UNCHANGED <<graph, result, exported, pc>>
    /\ CrawlFrame

\* CrawlHttpError without the test of line 92: the URL is recorded
CrawlHttpErrorRecorded ==
    /\ CrawlVisit("http_error")
    /\ error_404s' = Append(error_404s, Head(queue))
    /\ queue' = Tail(queue)
    /\ UNCHANGED <<graph, result, exported, pc>>
    /\ CrawlFrame

\* lines 91-94 with another status
CrawlHttpError ==
    /\ CrawlVisit("http_error")
    /\ queue' = Tail(queue)
    /\ UNCHANGED <<graph, error_404s, result, exported, pc>>
    /\ CrawlFrame

\* lines 95-96
CrawlRequestException ==
    /\ CrawlVisit("transport")
    /\ queue' = Tail(queue)
    /\ UNCHANGED <<graph, error_404s, result, exported, pc>>
    /\ CrawlFrame

\* what crawl hands back when its loop ends: the function has no return
\* statement, so the caller gets None (<<>>)
CrawlReturnValue(g, errs) == <<>>

\* line 81 with an empty queue: crawl returns
CrawlReturn ==
    /\ pc = "crawl"
    /\ queue = <<>>
    /\ result' = CrawlReturnValue(graph, error_404s)
    /\ pc' = "crawl_returned"
    /\ UNCHANGED <<graph, visited, queue, error_404s, exported, outcome, visitLog>>
    /\ CrawlFrame

\* lines 159-163 of main: "if graph:" then the exporters the flags ask for
MainExport ==
    /\ pc = "crawl_returned"
    /\ \E flags \in SUBSET {"map", "excel"} :
         exported' = IF result # <<>> /\ result[1].nodes # {}
                     THEN {[to |-> f, graph |-> result[1]] : f \in flags}
                     ELSE {}
    /\ pc' = "crawl_done"
    /\ UNCHANGED <<graph, visited, queue, error_404s, result, outcome, visitLog>>
    /\ CrawlFrame

NextCrawl ==
    \/ CrawlSkip
    \/ CrawlExpand
    \/ CrawlNotFound
    \/ CrawlHttpError
    \/ CrawlRequestException
    \/ CrawlReturn
    \/ MainExport

(***************************************************************************)
(* The sites crawled.                                                      *)
(***************************************************************************)
\* https://x.test
X == <<"https", ":", "/", "/", "x.test">>

\* https://other.test
Other == <<"https", ":", "/", "/", "other.test">>

\* mailto:m
Mailto == <<"mailto", ":", "m">>

\* <a href=h> with no "Older posts" in its text
A(h) == [href |-> h, text |-> ""]

\* A links to B, B links to A
CycleSite ==
    [u \in {X \o <<"/", "a">>, X \o <<"/", "b">>} |->
        IF u = X \o <<"/", "a">> THEN {A(<<"/", "b">>)} ELSE {A(<<"/", "a">>)}]

\* / links to /a and https://other.test/; /a links to / and /a/b
EndToEndSite ==
    [u \in {X, X \o <<"/", "a">>} |->
        IF u = X THEN {A(<<"/", "a">>), A(Other \o <<"/">>)}
        ELSE {A(<<"/">>), A(<<"/", "a", "/", "b">>)}]

BlogIndex == X \o <<"/", "blog">>
Post1 == X \o <<"/", "blog", "/", "p1">>
Post2 == X \o <<"/", "blog", "/", "p2">>

\* a blog index and two posts that link to each other and to the index
BlogSite ==
    [u \in {BlogIndex, Post1, Post2} |->
        IF u = BlogIndex THEN {A(<<"/", "blog", "/", "p1">>), A(<<"/", "blog", "/", "p2">>)}
        ELSE IF u = Post1 THEN {A(<<"/", "blog", "/", "p2">>), A(<<"/", "blog", "/">>)}
        ELSE {A(<<"/", "blog", "/", "p1">>), A(<<"/", "blog">>)}]

\* a page with an image, an image behind "Older posts", a pagination link
AssetSite ==
    [u \in {X} |->
        {A(<<"/", "logo", ".PNG">>),
         [href |-> <<"/", "old", ".png">>, text |-> "Older posts"],
         A(<<"/", "blog", "/", "page", "/", "2">>),
         A(<<"#", "top">>)}]

\* a page with a mailto: link and a link to another site
ContactSite ==
    [u \in {X} |-> {A(Mailto), A(Other \o <<"/">>), A(<<"/", "a">>)}]

GenPages == {X, X \o <<"/", "a">>, X \o <<"/", "b">>}

GenTags == {A(<<"/">>), A(<<"/", "a">>), A(<<"/", "b", "/">>), A(Other \o <<"/", "b">>), A(Mailto)}

\* every site of GenPages whose pages carry at most MaxLinks of GenTags
GenSites == [GenPages -> {S \in SUBSET GenTags : Cardinality(S) <= MaxLinks}]

\* the sites of the scenarios, each with its seed
ScenarioInputs ==
    {[start |-> X \o <<"/", "a">>, site |-> CycleSite],
     [start |-> X \o <<"/">>, site |-> EndToEndSite],
     [start |-> X \o <<"/">>, site |-> AssetSite],
     [start |-> X \o <<"/">>, site |-> ContactSite],
     [start |-> BlogIndex \o <<"/">>, site |-> BlogSite],
     [start |-> Post1, site |-> BlogSite]}

CrawlInputs == {[start |-> X \o <<"/">>, site |-> g] : g \in GenSites} \cup ScenarioInputs

\* the generated sites whose links stay on GenPages
LoopTags == {A(<<"/">>), A(<<"/", "a">>), A(<<"/", "b", "/">>)}

LoopSites == [GenPages -> {S \in SUBSET LoopTags : Cardinality(S) <= MaxLinks}]

LoopInputs == {[start |-> X \o <<"/">>, site |-> g] : g \in LoopSites} \cup ScenarioInputs

\* lines 76-79: the state with which crawl(start_url) enters its loop
InitCrawlOn(inputs) ==
    /\ \E in \in inputs : start_url = in.start /\ site = in.site
    /\ graph = DiGraph
    /\ visited = {}
    /\ queue = <<<<normalize_url(start_url), <<normalize_url(start_url)>>>>>>
    /\ error_404s = <<>>
    /\ result = <<>>
    /\ exported = {}
    /\ base_url = <<>>
    /\ max_depth = 0
    /\ to_visit = <<>>
    /\ outcome = <<>>
    /\ visitLog = <<>>
    /\ calls = <<>>
    /\ pc = "crawl"

InitCrawl == InitCrawlOn(CrawlInputs)

(***************************************************************************)
(* website_crawler.py                                                      *)
(***************************************************************************)
\* extract_links(html, base_url) of website_crawler.py
extract_links_w(tags, base) ==
    {t.href : t \in {t \in tags : /\ t.href # <<>>
                                  /\ Head(t.href) \in {"http", "https"}
                                  /\ Contains(t.href, base)}}
    \cup {base \o t.href : t \in {t \in tags : /\ t.href # <<>>
                                               /\ Head(t.href) = "/"}}

\* fetch_html(url) on a fetch that ends in oc: "html" the page's text, "None",
\* or "raise": with no response the handler's read of response.status_code
\* raises UnboundLocalError, which nothing catches
fetch_html(oc) ==
    IF oc = "ok" THEN "html"
    ELSE IF oc \in {"404", "http_error"} THEN "None"
    ELSE "raise"

\* lines 60-63 for one link: st is [graph, to_visit]
LinkStep(st, url, depth, link) ==
    [graph |-> add_edge(add_node(st.graph, link, depth + 1), url, link),
     to_visit |-> Append(st.to_visit, <<link, depth + 1>>)]

\* the for loop of lines 59-63 over the links in the order given, from link i on
RECURSIVE ForLinksW(_, _, _, _, _, _)
ForLinksW(order, i, st, url, depth, vis) ==
    IF i > Len(order) THEN st
    ELSE ForLinksW(order, i + 1,
                   IF order[i] \notin vis THEN LinkStep(st, url, depth, order[i]) ELSE st,
                   url, depth, vis)

SitemapFrame ==
    UNCHANGED <<site, start_url, base_url, max_depth, queue, error_404s, exported, calls>>

\* TakenUp without the depth test of line 54
TakenUpAnyDepth(url, depth) == url \notin visited

\* line 54: the entry is taken up
TakenUp(url, depth) == url \notin visited /\ depth <= max_depth

\* lines 53-54: the popped entry is visited already or too deep
SitemapSkip ==
    /\ pc = "sitemap"
    /\ to_visit # <<>>
    /\ ~TakenUp(Head(to_visit)[1], Head(to_visit)[2])
    /\ to_visit' = Tail(to_visit)
    /\ UNCHANGED <<graph, visited, result, outcome, visitLog, pc>>
    /\ SitemapFrame

\* lines 53-56: pop, mark visited, fetch with outcome oc
SitemapVisit(oc) ==
    /\ pc = "sitemap"
    /\ to_visit # <<>>
    /\ TakenUp(Head(to_visit)[1], Head(to_visit)[2])
    /\ oc \in FetchOutcomes(Head(to_visit)[1])
    /\ visited' = visited \cup {Head(to_visit)[1]}
    /\ visitLog' = Append(visitLog, Head(to_visit)[1])
    /\ outcome' = Append(outcome, <<Head(to_visit)[1], oc>>)

\* lines 57-63: fetch_html returned the page
SitemapExpand ==
    /\ \E oc \in {"ok", "404", "http_error", "transport"} :
         fetch_html(oc) = "html" /\ SitemapVisit(oc)
    /\ \E links \in {extract_links_w(TagsOf(Head(to_visit)[1]), base_url)} :
         \E order \in Orders(links) :
           \E st \in {ForLinksW(order, 1, [graph |-> graph, to_visit |-> Tail(to_visit)],
                                Head(to_visit)[1], Head(to_visit)[2],
                                visited \cup {Head(to_visit)[1]})} :
             graph' = st.graph /\ to_visit' = st.to_visit
    /\ UNCHANGED <<result, pc>>
    /\ SitemapFrame

\* line 57 with html None
SitemapDeadEnd ==
    /\ \E oc \in {"ok", "404", "http_error", "transport"} :
         fetch_html(oc) = "None" /\ SitemapVisit(oc)
    /\ to_visit' = Tail(to_visit)
    /\ UNCHANGED <<graph, result, pc>>
    /\ SitemapFrame

\* line 56 with fetch_html raising: the error leaves generate_sitemap_with_depth
SitemapRaise ==
    /\ \E oc \in {"ok", "404", "http_error", "transport"} :
         fetch_html(oc) = "raise" /\ SitemapVisit(oc)
    /\ to_visit' = Tail(to_visit)
    /\ pc' = "sitemap_raised"
    /\ UNCHANGED <<graph, result>>
    /\ SitemapFrame

\* lines 52, 65: the list is empty, the graph is returned
SitemapReturn ==
    /\ pc = "sitemap"
    /\ to_visit = <<>>
    /\ result' = <<graph>>
    /\ pc' = "sitemap_done"
    /\ UNCHANGED <<graph, visited, to_visit, outcome, visitLog>>
    /\ SitemapFrame

NextSitemap ==
    \/ SitemapSkip
    \/ SitemapExpand
    \/ SitemapDeadEnd
    \/ SitemapRaise
    \/ SitemapReturn

\* https://x.test/ with pages /, /a, /b
SitemapPages == {X \o <<"/">>, X \o <<"/", "a">>, X \o <<"/", "b">>}

SitemapTags == {A(<<"/">>), A(<<"/", "a">>), A(<<"/", "b">>), A(X \o <<"/", "c">>)}

\* a page with absolute links to the site and to another one, and a mailto: link
MixedSite ==
    [u \in {X \o <<"/">>} |->
        {A(X \o <<"/", "a">>), A(Other \o <<"/">>), A(Mailto), A(<<"/", "a">>)}]

SitemapSites ==
    [SitemapPages -> {S \in SUBSET SitemapTags : Cardinality(S) <= MaxLinks}]
    \cup {MixedSite}

\* main, lines 91-94, and lines 46-50
InitSitemap ==
    /\ start_url = X \o <<"/">>
    /\ site \in SitemapSites
    /\ base_url = rstrip(start_url)
    /\ max_depth \in -2..MaxDepthArg
    /\ visited = {}
    /\ to_visit = <<<<start_url, 0>>>>
    /\ graph = add_node(DiGraph, start_url, 0)
    /\ queue = <<>>
    /\ error_404s = <<>>
    /\ result = <<>>
    /\ exported = {}
    /\ outcome = <<>>
    /\ visitLog = <<>>
    /\ calls = <<>>
    /\ pc = "sitemap"

(***************************************************************************)
(* The two programs.                                                       *)
(***************************************************************************)
Init == InitCrawl \/ InitSitemap

Next == NextCrawl \/ NextSitemap

Spec == Init /\ [][Next]_vars

\* crawler.py alone; its loop and main run on, no step is withheld for ever
FairSpecCrawl == InitCrawlOn(LoopInputs) /\ [][NextCrawl]_vars /\ WF_vars(NextCrawl)

(***************************************************************************)
(* The URL functions of crawler.py, called on their own: a first call on   *)
(* any argument, then a second call of the same function on the result of  *)
(* the first or on the first argument with a "/" or a fragment added.      *)
(***************************************************************************)
UrlTokens == {"/", "#", "a"}

\* the token sequences of at most n tokens
RECURSIVE SeqsUpTo(_)
SeqsUpTo(n) ==
    IF n = 0 THEN {<<>>}
    ELSE SeqsUpTo(n - 1) \cup {Append(p, t) : p \in SeqsUpTo(n - 1), t \in UrlTokens}

RawPaths == SeqsUpTo(MaxUrlLen)

\* https://x.test/ followed by a path
AbsUrls == {X \o <<"/">> \o p : p \in RawPaths}

\* http://x.test and https://x.test:8080
XHttp == <<"http", ":", "/", "/", "x.test">>
XPort == <<"https", ":", "/", "/", "x.test", ":", "8080">>

LinkArgs ==
    {X, X \o <<"/", "a">>, XHttp \o <<"/", "a">>, XPort \o <<"/", "a">>,
     XPort, Other \o <<"/", "a">>, Other, Mailto, <<"/", "a">>, <<"a">>, <<"#", "a">>, <<>>}

BaseArgs == {X \o <<"/">>, X, XHttp \o <<"/">>, XPort \o <<"/">>, Other}

\* u with a trailing slash or a fragment added
Variants(u) == {u \o <<"/">>, u \o <<"#", "a">>, u \o <<"#">>}

\* the arguments of the next call of fn: any of first, or what follows the last call
NextArgs(fn, first) ==
    IF calls = <<>> THEN first
    ELSE IF calls[1].fn # fn THEN {}
    ELSE {calls[1].ret} \cup Variants(calls[1].arg)

UrlFrame ==
    UNCHANGED <<site, start_url, graph, visited, queue, error_404s, result, exported,
                base_url, max_depth, to_visit, outcome, visitLog, pc>>

\* normalize_url(url), lines 53-54
CallNormalizeUrl ==
    /\ pc = "url"
    /\ Len(calls) <= 1
    /\ \E u \in NextArgs("normalize_url", AbsUrls) :
         calls' = Append(calls, [fn |-> "normalize_url", arg |-> u, base |-> <<>>,
                                 ret |-> normalize_url(u)])
    /\ UrlFrame

\* line 61 of extract_links on one href, the base being https://x.test/
CallFullUrl ==
    /\ pc = "url"
    /\ Len(calls) <= 1
    /\ \E u \in NextArgs("full_url", AbsUrls \cup RawPaths) :
         calls' = Append(calls, [fn |-> "full_url", arg |-> u, base |-> X \o <<"/">>,
                                 ret |-> FullUrl(A(u), X \o <<"/">>)])
    /\ UrlFrame

\* is_internal_link(link, base_url), lines 50-51
CallIsInternalLink ==
    /\ pc = "url"
    /\ calls = <<>>
    /\ \E link \in LinkArgs, base \in BaseArgs :
         calls' = Append(calls, [fn |-> "is_internal_link", arg |-> link, base |-> base,
                                 ret |-> is_internal_link(link, base)])
    /\ UrlFrame

NextUrl == CallNormalizeUrl \/ CallFullUrl \/ CallIsInternalLink

InitUrl ==
    /\ site = <<>>
    /\ start_url = <<>>
    /\ graph = DiGraph
    /\ visited = {}
    /\ queue = <<>>
    /\ error_404s = <<>>
    /\ result = <<>>
    /\ exported = {}
    /\ base_url = <<>>
    /\ max_depth = 0
    /\ to_visit = <<>>
    /\ outcome = <<>>
    /\ visitLog = <<>>
    /\ calls = <<>>
    /\ pc = "url"

SpecUrl == InitUrl /\ [][NextUrl]_vars

(***************************************************************************)
(* Properties.                                                             *)
(***************************************************************************)
NoRepeat(seq) == \A i, j \in DOMAIN seq : seq[i] = seq[j] => i = j

FetchedUrls == [i \in DOMAIN outcome |-> outcome[i][1]]

OutcomeOf(url) == {outcome[i][2] : i \in {i \in DOMAIN outcome : outcome[i][1] = url}}

AllOk == \A i \in DOMAIN outcome : outcome[i][2] = "ok"

CrawlOver == pc \in {"crawl_returned", "crawl_done"}

Edge(u, v) == <<u, v>> \in graph.edges

\* C1: in both drivers no URL is added to visited twice and no URL is fetched
\* twice, also when the URL is queued several times.
C1_NoDuplicateVisits == NoRepeat(visitLog) /\ NoRepeat(FetchedUrls)

\* a visited URL has a second entry waiting in the queue
C1_Witness ==
    /\ Len(visitLog) >= 2
    /\ \E i \in DOMAIN queue : queue[i][1] \in visited

\* the links the fetched pages of the sitemap run carry
LinkEdges ==
    {e \in visited \X graph.nodes :
        /\ OutcomeOf(e[1]) = {"ok"}
        /\ e[2] \in extract_links_w(TagsOf(e[1]), base_url)}

\* the URLs at most d links away from start_url
RECURSIVE Within(_)
Within(d) ==
    IF d = 0 THEN {start_url}
    ELSE Within(d - 1) \cup {e[2] : e \in {e \in LinkEdges : e[1] \in Within(d - 1)}}

\* the length of the shortest link path from start_url to n
Dist(n) ==
    CHOOSE d \in 0..Cardinality(graph.nodes) :
        /\ n \in Within(d)
        /\ d = 0 \/ n \notin Within(d - 1)

\* C2: when generate_sitemap_with_depth returns and max_depth cut nothing off
\* (every node was visited), each node's depth attribute is the length of the
\* shortest link path from the start URL.
C2_BfsMinimality ==
    (pc = "sitemap_done" /\ graph.nodes \subseteq visited)
        => \A n \in graph.nodes : graph.depth[n] = Dist(n)

\* C3: the loop of crawl reaches an empty queue and crawl returns.
C3_CrawlTerminates == (pc = "crawl") ~> (pc = "crawl_returned" /\ queue = <<>>)

\* crawl has returned from the site with the cycle
C3_Witness ==
    /\ pc = "crawl_returned"
    /\ site = CycleSite
    /\ Len(outcome) = 2
    /\ AllOk

PageA == X \o <<"/", "a">>
PageB == X \o <<"/", "b">>

CycleRun == CrawlOver /\ site = CycleSite /\ start_url = PageA /\ AllOk

\* C4 as stated: the crawl of A <-> B seeded at A ends with the nodes {A, B}
\* and the edges A -> B and B -> A.
C4_CycleBothEdges ==
    CycleRun => /\ graph.nodes = {PageA, PageB}
                /\ graph.edges = {<<PageA, PageB>>, <<PageB, PageA>>}

\* C4 amended: the crawl of A <-> B seeded at A ends with the nodes {A, B} and
\* the one edge A -> B; B -> A is not recorded, A being visited when B is
\* expanded.
C4_CycleOneEdge ==
    CycleRun => /\ graph.nodes = {PageA, PageB}
                /\ graph.edges = {<<PageA, PageB>>}

C4_Witness == CycleRun /\ Len(outcome) = 2

\* C5: every record (u, path) of error_404s has path[0] the normalized seed,
\* its last element u, and every consecutive pair of path an edge of the graph.
C5_BrokenLinkPath ==
    \A k \in DOMAIN error_404s :
        LET u == error_404s[k][1]
            path == error_404s[k][2]
        IN  /\ path # <<>>
            /\ path[1] = normalize_url(start_url)
            /\ Last(path) = u
            /\ \A i \in 1..(Len(path) - 1) : Edge(path[i], path[i + 1])

\* a record whose path is seed, page, broken link
C5_Witness == \E k \in DOMAIN error_404s : Len(error_404s[k][2]) = 3

\* a page of the seed's site: an http(s) URL of the seed's host
OnSeedSite(u) == Scheme(u) \in {"http", "https"} /\ netloc(u) = netloc(start_url)

\* C6: in crawl no URL of another domain, nor any URL that is not a page of
\* the seed's site, becomes a graph node or is enqueued.
C6_DomainScoping ==
    (pc = "crawl" \/ CrawlOver) =>
        /\ \A n \in graph.nodes : OnSeedSite(n)
        /\ \A i \in DOMAIN queue : OnSeedSite(queue[i][1])

BlogRun == CrawlOver /\ site = BlogSite /\ AllOk

PostToPost == Edge(Post1, Post2) \/ Edge(Post2, Post1)

\* C7 as stated: the crawl of the blog site ends with no post -> post edge,
\* with both index -> post edges and with both post -> index edges.
C7_LoopSuppression ==
    BlogRun => /\ ~PostToPost
               /\ Edge(BlogIndex, Post1) /\ Edge(BlogIndex, Post2)
               /\ Edge(Post1, BlogIndex) /\ Edge(Post2, BlogIndex)

\* C7 amended: the crawl of the blog site ends with no post -> post edge;
\* seeded at the index it has exactly the two index -> post edges, seeded at
\* a post it has exactly that post -> index and index -> the other post.
C7_LoopSuppressionAmended ==
    BlogRun => /\ ~PostToPost
               /\ (start_url = BlogIndex \o <<"/">> =>
                     graph.edges = {<<BlogIndex, Post1>>, <<BlogIndex, Post2>>})
               /\ (start_url = Post1 =>
                     graph.edges = {<<Post1, BlogIndex>>, <<BlogIndex, Post2>>})

C7_Witness == BlogRun /\ start_url = BlogIndex \o <<"/">> /\ Len(outcome) = 3

PageAB == X \o <<"/", "a", "/", "b">>

EndToEndRun ==
    /\ CrawlOver
    /\ site = EndToEndSite
    /\ OutcomeOf(X) = {"ok"}
    /\ OutcomeOf(PageA) = {"ok"}
    /\ OutcomeOf(PageAB) = {"404"}

\* C8 as stated: the end-to-end crawl ends with the nodes {/, /a}, the single
\* edge / -> /a and one broken-link record, /a/b with path [/, /a, /a/b].
C8_EndToEnd ==
    EndToEndRun => /\ graph.nodes = {X, PageA}
                   /\ graph.edges = {<<X, PageA>>}
                   /\ error_404s = <<<<PageAB, <<X, PageA, PageAB>>>>>>

\* C8 amended: the end-to-end crawl ends with the nodes {/, /a, /a/b}, the
\* edges / -> /a and /a -> /a/b, no other.test node, and one broken-link
\* record, /a/b with path [/, /a, /a/b].
C8_EndToEndAmended ==
    EndToEndRun => /\ graph.nodes = {X, PageA, PageAB}
                   /\ graph.edges = {<<X, PageA>>, <<PageA, PageAB>>}
                   /\ error_404s = <<<<PageAB, <<X, PageA, PageAB>>>>>>

C8_Witness == EndToEndRun

\* C9: no fetch outcome of a URL makes an error leave either driver.
C9_NoFetchAborts == pc # "sitemap_raised"

\* C10: when crawl returns, its caller receives the graph and the list of
\* broken-link records.
C10_ResultDelivered == CrawlOver => result = <<graph, error_404s>>

\* a second call whose argument is the result of the first
Reapplied == Len(calls) = 2 /\ calls[2].arg = calls[1].ret

\* C11: the normalization of normalize_url and the stripping of extract_links
\* (line 61) give, applied to their own result, that result again.
C11_IdempotentNormalization == Reapplied => calls[2].ret = calls[1].ret

\* the first call changed its argument and the function was applied again
C11_Witness == Reapplied /\ calls[1].ret # calls[1].arg /\ calls[1].fn = "full_url"

\* a second call on the first argument with a trailing slash or a fragment added
CalledOnVariant ==
    /\ Len(calls) = 2
    /\ HasScheme(calls[1].arg)
    /\ calls[2].arg \in Variants(calls[1].arg)

\* C12: two URLs that differ only by a trailing slash or only by a fragment get
\* the same key from normalize_url (the seed key) and from line 61 of
\* extract_links (the link keys).
C12_NormalizationEquivalence == CalledOnVariant => calls[2].ret = calls[1].ret

QueuedUrls == [i \in DOMAIN queue |-> queue[i][1]]

\* C13 as stated: in crawl the queue never holds two entries for the same URL.
C13_SingleEnqueue == NoRepeat(QueuedUrls)

\* C13 amended: in crawl a URL that is in visited is never put on the queue
\* (the entries a step appends are not in visited); a URL not yet visited can
\* be queued several times, enqueueing being guarded by visited alone.
C13_EnqueueOnlyUnvisited ==
    [][queue # <<>> => \A i \in Len(queue)..Len(queue') : queue'[i][1] \notin visited']_vars

\* the queue holds two entries for one URL
C13_Witness == \E i, j \in DOMAIN queue : i < j /\ queue[i][1] = queue[j][1]

InCrawl == pc = "crawl" \/ CrawlOver

\* the records error_404s holds for url
RecordsOf(url) == {k \in DOMAIN error_404s : error_404s[k][1] = url}

\* url expanded: it has an outgoing edge or an entry it enqueued
Expanded(url) ==
    \/ \E e \in graph.edges : e[1] = url
    \/ \E i \in DOMAIN queue :
         Len(queue[i][2]) >= 2 /\ queue[i][2][Len(queue[i][2]) - 1] = url

\* C14: in crawl a URL has a record in error_404s iff its fetch ended in 404,
\* and then one record; another HTTP error or a transport failure adds none;
\* a URL whose fetch failed has no outgoing edge and enqueued nothing.
C14_FailureClassification ==
    InCrawl =>
        /\ \A k \in DOMAIN error_404s : OutcomeOf(error_404s[k][1]) = {"404"}
        /\ \A i \in DOMAIN outcome :
             /\ Cardinality(RecordsOf(outcome[i][1])) = IF outcome[i][2] = "404" THEN 1 ELSE 0
             /\ outcome[i][2] # "ok" => ~Expanded(outcome[i][1])

\* one fetch ended in 404 and one in another HTTP error
C14_Witness ==
    /\ CrawlOver
    /\ \A oc \in {"404", "http_error"} : \E i \in DOMAIN outcome : outcome[i][2] = oc

\* the depth of an entry of queue: the length of its path minus one
PathDepth(entry) == Len(entry[2]) - 1

\* q2 is q1 without its head, with entries added at its end
Dequeued(q1, q2) ==
    /\ q1 # <<>>
    /\ Len(q2) >= Len(q1) - 1
    /\ SubSeq(q2, 1, Len(q1) - 1) = Tail(q1)

\* C15: crawl and generate_sitemap_with_depth take entries from the front and
\* add them at the end, and the entry dequeued next is never less deep than
\* the one dequeued now (path length minus one, or the stored depth).
C15_FifoOrder ==
    [][/\ queue' # queue =>
            /\ Dequeued(queue, queue')
            /\ queue' # <<>> => PathDepth(Head(queue')) >= PathDepth(Head(queue))
       /\ to_visit' # to_visit =>
            /\ Dequeued(to_visit, to_visit')
            /\ to_visit' # <<>> => Head(to_visit')[2] >= Head(to_visit)[2]]_vars

\* entries of two depths wait in the queue of crawl
C15_Witness ==
    \E i, j \in DOMAIN queue : i < j /\ PathDepth(queue[i]) < PathDepth(queue[j])

\* C16: in generate_sitemap_with_depth the depth attribute a node has is never
\* changed by a later step.
C16_DepthWriteOnce ==
    [][\A n \in DOMAIN graph.depth : graph'.depth[n] = graph.depth[n]]_vars

\* where the "//" of u's authority stands, if u has one
AuthorityAt(u) == IF HasScheme(u) THEN 3 ELSE 1

HasAuthority(u) ==
    /\ Len(u) > AuthorityAt(u)
    /\ u[AuthorityAt(u)] = "/"
    /\ u[AuthorityAt(u) + 1] = "/"

\* host and optional port of u: the tokens after "//" up to the path or fragment
HostPort(u) ==
    LET from == AuthorityAt(u) + 2
        stops == {j \in from..Len(u) : u[j] \in {"/", "#"}}
        to == IF stops = {} THEN Len(u)
              ELSE (CHOOSE j \in stops : \A k \in stops : j <= k) - 1
    IN  IF HasAuthority(u) THEN SubSeq(u, from, to) ELSE <<>>

IsInternalCall == Len(calls) = 1 /\ calls[1].fn = "is_internal_link"

\* C17 as stated: is_internal_link(link, base_url) is true iff scheme, host and
\* port of the link equal those of the base, or the link has no authority.
C17_SameAuthority ==
    IsInternalCall =>
        calls[1].ret = (\/ ~HasAuthority(calls[1].arg)
                        \/ /\ Scheme(calls[1].arg) = Scheme(calls[1].base)
                           /\ HostPort(calls[1].arg) = HostPort(calls[1].base))

\* C17 amended: is_internal_link(link, base_url) is true iff host and optional
\* port of the link equal those of the base, the scheme not being compared,
\* or the link has no authority.
C17_SameHostPort ==
    IsInternalCall =>
        calls[1].ret = (\/ ~HasAuthority(calls[1].arg)
                        \/ HostPort(calls[1].arg) = HostPort(calls[1].base))

\* http://x.test/a was found internal to https://x.test/
C17_Witness ==
    /\ IsInternalCall
    /\ calls[1].arg = XHttp \o <<"/", "a">>
    /\ calls[1].base = X \o <<"/">>
    /\ calls[1].ret

\* v holds /blog/ and not /blog/page/
BlogNotPagination(v) ==
    Contains(v, <<"/", "blog", "/">>) /\ ~Contains(v, <<"/", "blog", "/", "page", "/">>)

\* the URLs of the entries a step of crawl appends to a non-empty queue
AppendedUrls == {queue'[i][1] : i \in Len(queue)..Len(queue')}

\* C18: in a step of crawl on a blog post no edge to and no entry for a URL
\* holding /blog/ and not /blog/page/ is added; every edge a step adds leaves
\* the current page and its target is enqueued in that step; so no edge of the
\* graph leads from a blog post to a non-pagination blog URL.
C18_SuppressionAlike ==
    [][(pc = "crawl" /\ queue # <<>>) =>
         /\ is_on_blog_post(Head(queue)[1]) =>
              \A v \in AppendedUrls \cup {e[2] : e \in graph'.edges \ graph.edges} :
                 ~BlogNotPagination(v)
         /\ \A e \in graph'.edges \ graph.edges :
              e[1] = Head(queue)[1] /\ e[2] \in AppendedUrls
         /\ \A e \in graph'.edges : ~(is_on_blog_post(e[1]) /\ BlogNotPagination(e[2]))]_vars

\* a blog post that links to the other post and to the index was expanded
C18_Witness ==
    /\ site = BlogSite
    /\ OutcomeOf(Post1) = {"ok"}
    /\ Edge(Post1, BlogIndex)

\* the URL the first queue entry of crawl holds (line 78)
Seed == normalize_url(start_url)

\* C19: when crawl has terminated the queue is empty, every node of the graph
\* is in visited and was attempted, visited is the set of graph nodes together
\* with the seed, and the seed is a node exactly if an edge leaves it.
C19_CompleteExploration ==
    CrawlOver =>
        /\ queue = <<>>
        /\ graph.nodes \subseteq visited
        /\ \A n \in graph.nodes : OutcomeOf(n) # {}
        /\ visited = graph.nodes \cup {Seed}
        /\ Seed \in graph.nodes <=> \E e \in graph.edges : e[1] = Seed

\* a crawl that ended with three nodes or more, one of them never expanded
C19_Witness ==
    /\ CrawlOver
    /\ Cardinality(graph.nodes) >= 3
    /\ \E n \in graph.nodes : "ok" \notin OutcomeOf(n)

\* a crawl that ended with the seed visited and no node in the graph
C19_WitnessSeedOnly == CrawlOver /\ graph.nodes = {} /\ visited = {Seed}

\* a step of generate_sitemap_with_depth that pops an entry beyond max_depth
\* fetches nothing and adds nothing to visited
NoFetchBeyondCutoff ==
    (pc = "sitemap" /\ to_visit # <<>> /\ Head(to_visit)[2] > max_depth) =>
        visited' = visited /\ outcome' = outcome /\ graph' = graph

\* a step that fetches does so for an entry of depth at most max_depth
FetchWithinCutoff ==
    (pc = "sitemap" /\ outcome' # outcome) =>
        /\ Head(to_visit)[2] <= max_depth
        /\ outcome' = Append(outcome, <<Head(to_visit)[1], outcome'[Len(outcome')][2]>>)

\* C20: in generate_sitemap_with_depth no entry dequeued with depth greater
\* than max_depth is fetched or added to visited, every fetched URL was dequeued
\* with depth at most max_depth, and every graph node has depth at most
\* max_depth + 1.
C20_DepthCutoff ==
    [][/\ NoFetchBeyondCutoff
       /\ FetchWithinCutoff
       /\ pc' \in {"sitemap", "sitemap_raised", "sitemap_done"} =>
            \A n \in graph'.nodes : graph'.depth[n] <= max_depth + 1]_vars

\* C20 as amended: the same, for every graph node other than the start URL,
\* which has depth 0 whatever max_depth is.
C20_DepthCutoffAmended ==
    [][/\ NoFetchBeyondCutoff
       /\ FetchWithinCutoff
       /\ pc' \in {"sitemap", "sitemap_raised", "sitemap_done"} =>
            /\ graph'.depth[start_url] = 0
            /\ \A n \in graph'.nodes \ {start_url} : graph'.depth[n] <= max_depth + 1]_vars

\* the sitemap run ended with a node one level beyond the cutoff that was
\* dequeued and never fetched
C20_Witness ==
    /\ pc = "sitemap_done"
    /\ max_depth >= 0
    /\ \E n \in graph.nodes : graph.depth[n] = max_depth + 1 /\ n \notin visited

====
